---- MODULE Spec2Model ----
(***************************************************************************)
(* A model of the PNG decoder: PNGReader (src/src/reader.ts) driving the   *)
(* PNG image object (src/unnamed/part_000).  The input file is a flat byte *)
(* sequence; the reader walks it with a cursor exactly as the code does.   *)
(***************************************************************************)
EXTENDS Integers, Sequences, FiniteSets, TLC

VARIABLES
    sig,          \* the first 8 bytes the input file was assembled from
    chunks,       \* the chunk records the input file was assembled from
    cut,          \* how many bytes were cut off the end of the file
    bytes,        \* PNGReader.bytes: the input
    readData,     \* the argument of parse()
    i,            \* PNGReader.i: the cursor
    header,       \* PNGReader.header: the signature bytes once accepted
    png,          \* PNGReader.png: the PNG object and its fields
    dataChunks,   \* PNGReader.dataChunks: the IDAT payloads
    pc,           \* where parse() stands
    err,          \* the error parse() was rejected with, "none" otherwise
    dispatched,   \* history: the chunks decodeChunk has dispatched, in order
    inflateIn,    \* history: the buffers handed to inflate, in order
    inflated,     \* what inflate resolved with
    call,         \* the method of the API under call, and its argument
    ret           \* what the last call on the PNG object returned or threw

vars == <<ret, call, sig, chunks, cut, bytes, readData, i, header, png, dataChunks, pc, err,
          dispatched, inflateIn, inflated>>

----------------------------------------------------------------------------
(* Bounds of the model *)

\* A file holds at most MaxChunks chunks
MaxChunks == 4

\* getPixel is called with x and y in 0..MaxCoord
MaxCoord == 1

\* The images handed to the defilterer alone are at most MaxWidth pixels
\* wide and MaxHeight rows high
MaxWidth == 2

MaxHeight == 2

----------------------------------------------------------------------------
(* Bytes and the helpers at the top of reader.ts *)

Byte == 0..255

Signature == <<137, 80, 78, 71, 13, 10, 26, 10>>

\* equalBytes with the loop started one index too low: the last byte is
\* never compared
equalBytesSkipLast(a, b) ==
    /\ Len(a) = Len(b)
    /\ \A l \in 1..(Len(a) - 1) : a[l] = b[l]

\* equalBytes(a, b): same length and same byte at every index
equalBytes(a, b) ==
    /\ Len(a) = Len(b)
    /\ \A l \in 1..Len(a) : a[l] = b[l]

\* readUInt32(buffer, offset): big-endian unsigned 32-bit value.  The
\* DataView constructor throws a RangeError when fewer than 4 bytes are
\* available at the offset; ReadUInt32Ok is that condition.
ReadUInt32Ok(buffer, offset) == offset + 4 <= Len(buffer)

readUInt32(buffer, offset) ==
    buffer[offset + 1] * 16777216 + buffer[offset + 2] * 65536
        + buffer[offset + 3] * 256 + buffer[offset + 4]

\* readUInt8(buffer, offset) = buffer[offset]; an index past the end gives
\* JavaScript's undefined, written -1 here (it is no byte).
readUInt8(buffer, offset) ==
    IF offset + 1 <= Len(buffer) THEN buffer[offset + 1] ELSE -1

\* bufferToString(buffer): one UTF-16 code unit per byte; a string is
\* represented here by the sequence of its code units.
bufferToString(buffer) == [k \in 1..Len(buffer) |-> buffer[k]]

\* The encoder side of readUInt32, used to assemble input files
UInt32Bytes(n) ==
    << (n \div 16777216) % 256, (n \div 65536) % 256, (n \div 256) % 256, n % 256 >>

\* The chunk tags as strings of code units
IHDR == <<73, 72, 68, 82>>
PLTE == <<80, 76, 84, 69>>
IDAT == <<73, 68, 65, 84>>
tRNS == <<116, 82, 78, 83>>
IEND == <<73, 69, 78, 68>>
tEXt == <<116, 69, 88, 116>>

----------------------------------------------------------------------------
(* The PNG object (src/unnamed/part_000) *)

NewPNG ==
    [ width |-> 0, height |-> 0, bitDepth |-> 0, colorType |-> 0,
      compressionMethod |-> 0, filterMethod |-> 0, interlaceMethod |-> 0,
      colors |-> 0, alpha |-> FALSE,
      palette |-> << >>, pixels |-> << >>, trns |-> << >> ]

\* A setter returns the object after the call and the error it threw
Done(p) == [png |-> p, err |-> "none"]
Threw(p, e) == [png |-> p, err |-> e]

setWidth(p, width) == Done([p EXCEPT !.width = width])

setHeight(p, height) == Done([p EXCEPT !.height = height])

setBitDepth(p, bitDepth) == Done([p EXCEPT !.bitDepth = bitDepth])

ColorTypes == {0, 2, 3, 4, 6}

\* setColorType with no default case in its switch: an unknown colour
\* type is stored with colors = 0 and alpha = false
setColorTypeNoDefault(p, colorType) ==
    LET colors == CASE colorType = 0 -> 1
                    [] colorType = 2 -> 3
                    [] colorType = 3 -> 1
                    [] colorType = 4 -> 2
                    [] colorType = 6 -> 4
                    [] OTHER -> 0
    IN  Done([p EXCEPT !.colors = colors, !.alpha = (colorType \in {4, 6}),
                       !.colorType = colorType])

setColorType(p, colorType) ==
    CASE colorType = 0 -> Done([p EXCEPT !.colors = 1, !.alpha = FALSE, !.colorType = colorType])
      [] colorType = 2 -> Done([p EXCEPT !.colors = 3, !.alpha = FALSE, !.colorType = colorType])
      [] colorType = 3 -> Done([p EXCEPT !.colors = 1, !.alpha = FALSE, !.colorType = colorType])
      [] colorType = 4 -> Done([p EXCEPT !.colors = 2, !.alpha = TRUE, !.colorType = colorType])
      [] colorType = 6 -> Done([p EXCEPT !.colors = 4, !.alpha = TRUE, !.colorType = colorType])
      [] OTHER -> Threw(p, "invalid color type")

setCompressionMethod(p, compressionMethod) ==
    IF compressionMethod # 0
    THEN Threw(p, "invalid compression method")
    ELSE Done([p EXCEPT !.compressionMethod = compressionMethod])

\* setFilterMethod without its test
setFilterMethodUnchecked(p, filterMethod) == Done([p EXCEPT !.filterMethod = filterMethod])

setFilterMethod(p, filterMethod) ==
    IF filterMethod # 0
    THEN Threw(p, "invalid filter method")
    ELSE Done([p EXCEPT !.filterMethod = filterMethod])

setInterlaceMethod(p, interlaceMethod) ==
    IF interlaceMethod # 0 /\ interlaceMethod # 1
    THEN Threw(p, "invalid interlace method")
    ELSE Done([p EXCEPT !.interlaceMethod = interlaceMethod])

\* Math.pow(2, n) for a bit depth n in 0..255.  From 2^20 on the product
\* with 3 exceeds the length of every buffer of the model, so the value is
\* held there instead of overflowing the checker's integers.
Pow2(n) == IF n >= 20 THEN 2 ^ 20 ELSE 2 ^ n

setPalette(p, palette) ==
    IF Len(palette) % 3 # 0
    THEN Threw(p, "incorrect PLTE chunk length")
    \* Math.pow(2, undefined) is NaN, and length > NaN is false
    ELSE IF p.bitDepth >= 0 /\ Len(palette) > Pow2(p.bitDepth) * 3
    THEN Threw(p, "palette has more colors than 2^bitdepth")
    ELSE Done([p EXCEPT !.palette = palette])

setTRNS(p, trns) == Done([p EXCEPT !.trns = trns])

setPixels(p, pixels) == Done([p EXCEPT !.pixels = pixels])

\* A getter returns a value or throws; no getter changes the object
Returned(v) == [err |-> "none", value |-> v]
Thrown(e) == [err |-> e, value |-> << >>]

\* No call was made on the object yet
NoReturn == Returned(<< >>)

\* !this.pixels: the field always holds a Uint8Array, and every object is
\* truthy, the empty Uint8Array included
PixelsFalsy(pixels) == FALSE

\* The index i of getPixel, (colors * bitDepth / 8) * (y * width + x), in
\* eighths of a byte: the division by 8 is exact in a double, so i is the
\* integer PixelIndex8 / 8 or a fraction
PixelIndex8(p, x, y) == (p.colors * p.bitDepth) * (y * p.width + x)

\* buf[k]: the byte, or undefined (-1) when k is undefined, NaN or outside
\* the array
Elem(buf, k) == IF k >= 0 /\ k < Len(buf) THEN buf[k + 1] ELSE -1

\* pixels[i + k] in getPixel; a fractional index reads undefined
PixelByte(p, x, y, k) ==
    LET i8 == PixelIndex8(p, x, y)
    IN  IF i8 % 8 # 0 THEN -1 ELSE Elem(p.pixels, (i8 \div 8) + k)

\* this.palette[pixels[i] * 3 + k]; undefined * 3 is NaN
PaletteByte(p, index, k) == IF index < 0 THEN -1 ELSE Elem(p.palette, index * 3 + k)

\* trns[pixels[i]] != null ? trns[pixels[i]] : 255 (this.trns is never null)
TrnsAlpha(p, index) ==
    LET t == IF index < 0 THEN -1 ELSE Elem(p.trns, index)
    IN  IF t # -1 THEN t ELSE 255

\* getPixel with the bounds test written > instead of >=
getPixelLaxBounds(p, x, y) ==
    IF x > p.width \/ y > p.height THEN Thrown("x,y position out of bound")
    ELSE Returned(<<PixelByte(p, x, y, 0), PixelByte(p, x, y, 0), PixelByte(p, x, y, 0), 255>>)

getPixel(p, x, y) ==
    IF PixelsFalsy(p.pixels) THEN Thrown("pixel data is empty")
    ELSE IF x >= p.width \/ y >= p.height THEN Thrown("x,y position out of bound")
    ELSE LET s0 == PixelByte(p, x, y, 0)
             s1 == PixelByte(p, x, y, 1)
             s2 == PixelByte(p, x, y, 2)
             s3 == PixelByte(p, x, y, 3)
         IN  CASE p.colorType = 0 -> Returned(<<s0, s0, s0, 255>>)
               [] p.colorType = 2 -> Returned(<<s0, s1, s2, 255>>)
               [] p.colorType = 3 ->
                     Returned(<<PaletteByte(p, s0, 0), PaletteByte(p, s0, 1),
                                PaletteByte(p, s0, 2), TrnsAlpha(p, s0)>>)
               [] p.colorType = 4 -> Returned(<<s0, s0, s0, s1>>)
               [] p.colorType = 6 -> Returned(<<s0, s1, s2, s3>>)
               [] OTHER -> Thrown("invalid color type")

\* data[at + k] = pixelData[k] for k = 0..3 on a JavaScript array; data is
\* created with width * height * 4 slots and every write falls inside
Put4(data, at, pixelData) ==
    [n \in 1..Len(data) |->
        IF n - 1 >= at /\ n - 1 < at + 4 THEN pixelData[n - at] ELSE data[n]]

\* getRGBA8Array with the pixel number computed column-major
RECURSIVE RGBALoopTransposed(_, _, _)
RGBALoopTransposed(p, data, n) ==
    IF n >= p.width * p.height THEN Returned(data)
    ELSE LET y == n \div p.width
             x == n % p.width
             pixelData == getPixel(p, x, y)
         IN  IF pixelData.err # "none" THEN pixelData
             ELSE RGBALoopTransposed(p, Put4(data, (x * p.height + y) * 4, pixelData.value),
                                     n + 1)

\* The two loops of getRGBA8Array from pixel number n = y * width + x on,
\* in the order the loops visit the pixels; empty slots are written -1
RECURSIVE RGBALoop(_, _, _)
RGBALoop(p, data, n) ==
    IF n >= p.width * p.height THEN Returned(data)
    ELSE LET y == n \div p.width
             x == n % p.width
             pixelData == getPixel(p, x, y)
         IN  IF pixelData.err # "none" THEN pixelData
             ELSE RGBALoop(p, Put4(data, (y * p.width + x) * 4, pixelData.value), n + 1)

getRGBA8Array(p) ==
    RGBALoop(p, [n \in 1..(p.width * p.height * 4) |-> -1], 0)

----------------------------------------------------------------------------
(* PNGReader (src/src/reader.ts) *)

\* readBytes(length) at cursor at in buffer b: the bytes, the new cursor, and
\* whether it threw 'Unexpectedly reached end of file' (cursor unchanged)
readBytesCursorMovedFirst(b, at, length) ==
    LET end == at + length IN
    IF end > Len(b)
    THEN [ok |-> FALSE, bytes |-> << >>, i |-> end]
    ELSE [ok |-> TRUE, bytes |-> SubSeq(b, at + 1, end), i |-> end]

readBytes(b, at, length) ==
    LET end == at + length IN
    IF end > Len(b)
    THEN [ok |-> FALSE, bytes |-> << >>, i |-> at]
    ELSE [ok |-> TRUE, bytes |-> SubSeq(b, at + 1, end), i |-> end]

\* decodeIHDR(chunk): the setters in order, up to the first one that throws
decodeIHDR(p, chunk) ==
    IF ~ReadUInt32Ok(chunk, 0) THEN Threw(p, "RangeError") ELSE
    LET r1 == setWidth(p, readUInt32(chunk, 0)) IN
    IF ~ReadUInt32Ok(chunk, 4) THEN Threw(r1.png, "RangeError") ELSE
    LET r2 == setHeight(r1.png, readUInt32(chunk, 4))
        r3 == setBitDepth(r2.png, readUInt8(chunk, 8))
        r4 == setColorType(r3.png, readUInt8(chunk, 9))
    IN  IF r4.err # "none" THEN r4 ELSE
    LET r5 == setCompressionMethod(r4.png, readUInt8(chunk, 10))
    IN  IF r5.err # "none" THEN r5 ELSE
    LET r6 == setFilterMethod(r5.png, readUInt8(chunk, 11))
    IN  IF r6.err # "none" THEN r6 ELSE
        setInterlaceMethod(r6.png, readUInt8(chunk, 12))

decodePLTE(p, chunk) == setPalette(p, chunk)

\* decodeIDAT assigning the list instead of pushing to it
decodeIDATKeepLast(dc, chunk) == <<chunk>>

\* dataChunks.push(chunk)
decodeIDAT(dc, chunk) == Append(dc, chunk)

decodeTRNS(p, chunk) == setTRNS(p, chunk)

decodeIEND(p, chunk) == Done(p)

\* The CRC read with a comparison added: a CRC field that is not all zero
\* (what the input files of the model carry) is refused
readCRCValidated(b, at) ==
    LET r == readBytes(b, at, 4)
    IN  IF r.ok /\ r.bytes # <<0, 0, 0, 0>>
        THEN [ok |-> FALSE, bytes |-> << >>, i |-> at]
        ELSE r

\* "Read the CRC bytes": this.readBytes(4), the result dropped
readCRCNotRead(b, at) == [ok |-> TRUE, bytes |-> << >>, i |-> at]

readCRC(b, at) == readBytes(b, at, 4)

\* The switch of decodeChunk with a default case that throws
dispatchStrict(type, p, dc, chunk) ==
    LET r == CASE type = IHDR -> decodeIHDR(p, chunk)
               [] type = PLTE -> decodePLTE(p, chunk)
               [] type = tRNS -> decodeTRNS(p, chunk)
               [] type = IEND -> decodeIEND(p, chunk)
               [] type = IDAT -> Done(p)
               [] OTHER -> Threw(p, "unknown chunk type")
    IN  [ png |-> r.png, err |-> r.err,
          dataChunks |-> IF type = IDAT THEN decodeIDAT(dc, chunk) ELSE dc ]

\* The switch of decodeChunk: the PNG object and the IDAT list after the
\* handler of the type ran, and the error the handler threw
dispatch(type, p, dc, chunk) ==
    LET r == CASE type = IHDR -> decodeIHDR(p, chunk)
               [] type = PLTE -> decodePLTE(p, chunk)
               [] type = tRNS -> decodeTRNS(p, chunk)
               [] type = IEND -> decodeIEND(p, chunk)
               [] OTHER -> Done(p)
    IN  [ png |-> r.png, err |-> r.err,
          dataChunks |-> IF type = IDAT THEN decodeIDAT(dc, chunk) ELSE dc ]

\* The reader's mutable fields, as one value
ReaderState(at, p, dc) == [i |-> at, png |-> p, dataChunks |-> dc]

\* decodeChunk() on buffer b from state st: the state it leaves, the error
\* it threw ("none" if it returned), the type it returned and whether the
\* switch was reached (the chunk was dispatched)
decodeChunk(b, st) ==
    LET out(at, p, dc, e, type, chunk, disp) ==
            [ i |-> at, png |-> p, dataChunks |-> dc, err |-> e, type |-> type,
              chunk |-> chunk, dispatched |-> disp ]
        eof(at) == out(at, st.png, st.dataChunks, "Unexpectedly reached end of file",
                       << >>, << >>, FALSE)
        rl == readBytes(b, st.i, 4)
    IN  IF ~rl.ok THEN eof(rl.i) ELSE
        LET length == readUInt32(rl.bytes, 0)
            rt == readBytes(b, rl.i, 4)
        IN  IF length < 0 THEN out(rl.i, st.png, st.dataChunks, "Bad chunk length",
                                   << >>, << >>, FALSE) ELSE
            IF ~rt.ok THEN eof(rt.i) ELSE
        LET type == bufferToString(rt.bytes)
            rc == readBytes(b, rt.i, length)
        IN  IF ~rc.ok THEN eof(rc.i) ELSE
        LET chunk == rc.bytes
            \* Read the CRC bytes
            rr == readCRC(b, rc.i)
        IN  IF ~rr.ok THEN eof(rr.i) ELSE
        LET r == dispatch(type, st.png, st.dataChunks, chunk)
        IN  out(rr.i, r.png, r.dataChunks, r.err, type, chunk, TRUE)

\* decodeHeader() on buffer b with the cursor at 0
decodeHeader(b, at) ==
    IF at # 0 THEN [i |-> at, header |-> << >>,
                    err |-> "file pointer should be at 0 to read the header"] ELSE
    LET rh == readBytes(b, at, 8) IN
    IF ~rh.ok THEN [i |-> rh.i, header |-> << >>,
                    err |-> "Unexpectedly reached end of file"]
    ELSE IF ~equalBytes(rh.bytes, Signature)
    THEN [i |-> rh.i, header |-> << >>, err |-> "invalid PNGReader file (bad signature)"]
    ELSE [i |-> rh.i, header |-> rh.bytes, err |-> "none"]

\* The break test without its header-only half
LoopBreaksOnIENDOnly(type, rd) == type = IEND

\* The test after decodeChunk in parse(): stop after IHDR chunk, or after IEND
LoopBreaks(type, rd) == (type = IHDR /\ rd = FALSE) \/ type = IEND

\* The first half of decodePixels(): the IDAT payloads joined into one buffer
RECURSIVE Concat(_)
Concat(dc) == IF dc = << >> THEN << >> ELSE Head(dc) \o Concat(Tail(dc))

\* The while loop of parse() on buffer b from state st, run to its end: the
\* state it leaves and the error that ended it
RECURSIVE ChunkLoop(_, _, _)
ChunkLoop(b, rd, st) ==
    IF ~(st.i < Len(b))
    THEN [i |-> st.i, png |-> st.png, dataChunks |-> st.dataChunks, err |-> "none"]
    ELSE LET r == decodeChunk(b, st) IN
         IF r.err # "none" \/ LoopBreaks(r.type, rd)
         THEN [i |-> r.i, png |-> r.png, dataChunks |-> r.dataChunks, err |-> r.err]
         ELSE ChunkLoop(b, rd, ReaderState(r.i, r.png, r.dataChunks))

\* parse(rd) on buffer b by a fresh reader, up to the call of decodePixels
ParseChunks(b, rd) ==
    LET h == decodeHeader(b, 0) IN
    IF h.err # "none"
    THEN [i |-> h.i, png |-> NewPNG, dataChunks |-> << >>, err |-> h.err]
    ELSE ChunkLoop(b, rd, ReaderState(h.i, NewPNG, << >>))

----------------------------------------------------------------------------
(* The defilterer: interlaceNone and the five unFilter methods *)

\* scanline[k] and pixels[k] with a 0-based index; an index outside the
\* array reads undefined (-1)
At(buf, k) == IF k >= 0 /\ k < Len(buf) THEN buf[k + 1] ELSE -1

\* pixels[k] = v on a zero-filled Buffer: a write outside the buffer is
\* dropped, and undefined or NaN is stored as 0
Store(pixels, k, v) ==
    IF k >= 0 /\ k < Len(pixels)
    THEN [pixels EXCEPT ![k + 1] = IF v < 0 THEN 0 ELSE v]
    ELSE pixels

\* (x + y) & 0xff; NaN & 0xff is 0
AddByte(x, y) == IF x < 0 \/ y < 0 THEN -1 ELSE (x + y) % 256

\* x >> 1; undefined >> 1 and NaN >> 1 are 0
Shr1(x) == IF x < 0 THEN 0 ELSE x \div 2

\* a + b as a number; NaN (-1) if either is undefined
Plus(x, y) == IF x < 0 \/ y < 0 THEN -1 ELSE x + y

Abs(x) == IF x < 0 THEN 0 - x ELSE x

\* The predictor with the first test cut to pa <= pb
PaethPrShortTest(a, b, c) ==
    IF a < 0 \/ b < 0 \/ c < 0 THEN c ELSE
    LET pp == a + b - c
        pa == Abs(pp - a)
        pb == Abs(pp - b)
        pc2 == Abs(pp - c)
    IN  IF pa <= pb THEN a
        ELSE IF pb <= pc2 THEN b
        ELSE c

\* The predictor chosen in the last loop of unFilterPaeth.  With an
\* undefined neighbour every distance is NaN, both tests are false and pr = c.
PaethPr(a, b, c) ==
    IF a < 0 \/ b < 0 \/ c < 0 THEN c ELSE
    LET pp == a + b - c
        pa == Abs(pp - a)
        pb == Abs(pp - b)
        pc2 == Abs(pp - c)
    IN  IF pa <= pb /\ pa <= pc2 THEN a
        ELSE IF pb <= pc2 THEN b
        ELSE c

\* The value one loop body of an unFilter method stores at pixels[of + k]
LoopValue(body, scanline, pixels, bpp, of, length, k) ==
    CASE body = "copy" -> At(scanline, k)
      [] body = "left" -> AddByte(At(scanline, k), At(pixels, of + k - bpp))
      [] body = "up" -> AddByte(At(scanline, k), At(pixels, of + k - length))
      [] body = "halfLeft" -> AddByte(At(scanline, k), Shr1(At(pixels, of + k - bpp)))
      [] body = "halfUp" -> AddByte(At(scanline, k), Shr1(At(pixels, of - length + k)))
      [] body = "average" ->
            AddByte(At(scanline, k),
                    Shr1(Plus(At(pixels, of + k - bpp), At(pixels, of + k - length))))
      [] body = "paeth" ->
            AddByte(At(scanline, k),
                    PaethPr(At(pixels, of + k - bpp), At(pixels, of + k - length),
                            At(pixels, of + k - length - bpp)))

\* for (; i < to; i++) pixels[of + i] = <body>, started at i = from
RECURSIVE ForLoop(_, _, _, _, _, _, _, _)
ForLoop(body, scanline, pixels, bpp, of, length, from, to) ==
    IF from >= to THEN pixels
    ELSE ForLoop(body, scanline,
                 Store(pixels, of + from,
                       LoopValue(body, scanline, pixels, bpp, of, length, from)),
                 bpp, of, length, from + 1, to)

\* Where a loop that ran from `from` while i < to leaves i
LoopEnd(from, to) == IF from >= to THEN from ELSE to

unFilterNone(scanline, pixels, bpp, of, length) ==
    ForLoop("copy", scanline, pixels, bpp, of, length, 0, length)

\* unFilterSub adding the previous byte instead of the previous pixel's
unFilterSubPrevByte(scanline, pixels, bpp, of, length) ==
    LET p1 == ForLoop("copy", scanline, pixels, bpp, of, length, 0, bpp)
    IN  ForLoop("left", scanline, p1, 1, of, length, LoopEnd(0, bpp), length)

unFilterSub(scanline, pixels, bpp, of, length) ==
    LET p1 == ForLoop("copy", scanline, pixels, bpp, of, length, 0, bpp)
    IN  ForLoop("left", scanline, p1, bpp, of, length, LoopEnd(0, bpp), length)

unFilterUp(scanline, pixels, bpp, of, length) ==
    IF of - length < 0
    THEN ForLoop("copy", scanline, pixels, bpp, of, length, 0, length)
    ELSE ForLoop("up", scanline, pixels, bpp, of, length, 0, length)

unFilterAverage(scanline, pixels, bpp, of, length) ==
    IF of - length < 0
    THEN LET p1 == ForLoop("copy", scanline, pixels, bpp, of, length, 0, bpp)
         IN  ForLoop("halfLeft", scanline, p1, bpp, of, length, LoopEnd(0, bpp), length)
    ELSE LET p1 == ForLoop("halfUp", scanline, pixels, bpp, of, length, 0, bpp)
         IN  ForLoop("average", scanline, p1, bpp, of, length, LoopEnd(0, bpp), length)

unFilterPaeth(scanline, pixels, bpp, of, length) ==
    IF of - length < 0
    THEN LET p1 == ForLoop("copy", scanline, pixels, bpp, of, length, 0, bpp)
         IN  ForLoop("left", scanline, p1, bpp, of, length, LoopEnd(0, bpp), length)
    ELSE LET p1 == ForLoop("up", scanline, pixels, bpp, of, length, 0, bpp)
         IN  ForLoop("paeth", scanline, p1, bpp, of, length, LoopEnd(0, bpp), length)

\* data.slice(from, to), clamped to the buffer as slice does
Slice(data, from, to) ==
    LET t == IF to > Len(data) THEN Len(data) ELSE to
    IN  IF from >= t THEN << >> ELSE SubSeq(data, from + 1, t)

\* Math.max(1, colors * bitDepth / 8).  The quotient is exact or below 1 for
\* every header of the model (bit depths 0, 1, 8 and 16).
BytesPerPixel(p) ==
    LET q == (p.colors * p.bitDepth) \div 8 IN IF q < 1 THEN 1 ELSE q

\* The row loop with a default case that breaks instead of throwing: a row
\* of unknown filter type is left out
RECURSIVE RowLoopSkipUnknown(_, _, _, _, _, _)
RowLoopSkipUnknown(data, pixels, bpp, cpr, at, offset) ==
    IF at >= Len(data) THEN [pixels |-> pixels, err |-> "none"] ELSE
    LET scanline == Slice(data, at + 1, at + cpr + 1)
        filter == readUInt8(data, at)
    IN  RowLoopSkipUnknown(data,
                     CASE filter = 0 -> unFilterNone(scanline, pixels, bpp, offset, cpr)
                       [] filter = 1 -> unFilterSub(scanline, pixels, bpp, offset, cpr)
                       [] filter = 2 -> unFilterUp(scanline, pixels, bpp, offset, cpr)
                       [] filter = 3 -> unFilterAverage(scanline, pixels, bpp, offset, cpr)
                       [] filter = 4 -> unFilterPaeth(scanline, pixels, bpp, offset, cpr)
                       [] OTHER -> pixels,
                     bpp, cpr, at + cpr + 1, offset + cpr)

\* The row loop of interlaceNone from stream position at, with raster offset
\* of: the pixels and whether a filter type was unknown
RECURSIVE RowLoop(_, _, _, _, _, _)
RowLoop(data, pixels, bpp, cpr, at, offset) ==
    IF at >= Len(data) THEN [pixels |-> pixels, err |-> "none"] ELSE
    LET scanline == Slice(data, at + 1, at + cpr + 1)
        filter == readUInt8(data, at)
    IN  IF filter \notin 0..4 THEN [pixels |-> pixels, err |-> "unknown filtered scanline"]
        ELSE RowLoop(data,
                     CASE filter = 0 -> unFilterNone(scanline, pixels, bpp, offset, cpr)
                       [] filter = 1 -> unFilterSub(scanline, pixels, bpp, offset, cpr)
                       [] filter = 2 -> unFilterUp(scanline, pixels, bpp, offset, cpr)
                       [] filter = 3 -> unFilterAverage(scanline, pixels, bpp, offset, cpr)
                       [] filter = 4 -> unFilterPaeth(scanline, pixels, bpp, offset, cpr),
                     bpp, cpr, at + cpr + 1, offset + cpr)

\* interlaceNone(data): the PNG object after the call and the error thrown
interlaceNone(p, data) ==
    LET bpp == BytesPerPixel(p)
        cpr == bpp * p.width
        pixels == [k \in 1..(bpp * p.width * p.height) |-> 0]
        r == RowLoop(data, pixels, bpp, cpr, 0, 0)
    IN  IF r.err # "none" THEN Threw(p, r.err) ELSE setPixels(p, r.pixels)

\* interlaceAdam7 handing the stream to interlaceNone
interlaceAdam7AsNone(p, data) == interlaceNone(p, data)

interlaceAdam7(p, data) == Threw(p, "Adam7 interlacing is not implemented yet")

\* The second half of decodePixels(), once inflate has resolved
DefilterInflated(p, data) ==
    IF p.interlaceMethod = 0 THEN interlaceNone(p, data) ELSE interlaceAdam7(p, data)

----------------------------------------------------------------------------
(* The input files of the model *)

\* The 13 bytes of an IHDR payload
IHDRData(w, h, bd, ct, cm, fm, im) ==
    UInt32Bytes(w) \o UInt32Bytes(h) \o <<bd, ct, cm, fm, im>>

\* IHDR payloads: three headers every setter accepts (the last one Adam7)
\* and one rejected by each validating setter
IHDRPool ==
    { IHDRData(2, 1, 8, 0, 0, 0, 0),
      IHDRData(1, 2, 1, 3, 0, 0, 0),
      IHDRData(1, 1, 8, 4, 0, 0, 1),
      IHDRData(2, 1, 8, 5, 0, 0, 0),
      IHDRData(1, 2, 8, 2, 1, 0, 0),
      IHDRData(1, 2, 8, 6, 0, 1, 0),
      IHDRData(1, 1, 8, 3, 0, 0, 2) }

\* PLTE payloads of 2, 6 and 9 bytes
PLTEPool ==
    { <<10, 20>>, <<10, 20, 30, 40, 50, 60>>,
      <<10, 20, 30, 40, 50, 60, 70, 80, 90>> }

IDATPool == { << >>, <<120>>, <<156, 99>> }

ChunkPool ==
    [type : {IHDR}, data : IHDRPool]
        \cup [type : {PLTE}, data : PLTEPool]
        \cup [type : {IDAT}, data : IDATPool]
        \cup [type : {tRNS}, data : {<<0, 255>>}]
        \cup [type : {IEND}, data : {<< >>}]
        \cup [type : {tEXt}, data : {<<65>>}]

\* Two signatures that differ from the PNG signature in one byte
BadSignatures == { [Signature EXCEPT ![1] = 136], [Signature EXCEPT ![8] = 13] }

\* How many bytes a damaged file lacks at its end: none, half of the last
\* CRC, the last CRC and one byte more, the last CRC and six bytes more
CutPool == {0, 2, 5, 10}

\* The CRC field of the chunks of the input file
FileCrc == <<0, 0, 0, 0>>

\* length | type | payload | crc
ChunkBytes(c, crc) == UInt32Bytes(Len(c.data)) \o c.type \o c.data \o crc

RECURSIVE ChunksBytes(_, _)
ChunksBytes(cs, crcs) ==
    IF cs = << >> THEN << >>
    ELSE ChunkBytes(Head(cs), Head(crcs)) \o ChunksBytes(Tail(cs), Tail(crcs))

\* The file: signature, chunks, and the last c bytes cut off
FileBytes(sg, cs, crcs, c) ==
    LET all == sg \o ChunksBytes(cs, crcs)
    IN  SubSeq(all, 1, IF Len(all) > c THEN Len(all) - c ELSE 0)

\* How a file opens: with no chunk, one chunk or two chunks of ChunkPool
Openings == { << >> } \cup { <<c>> : c \in ChunkPool } \cup (ChunkPool \X ChunkPool)

\* The chunks that may follow a two-chunk opening
TailPool ==
    { [type |-> IHDR, data |-> IHDRData(1, 2, 1, 3, 0, 0, 0)],
      [type |-> IDAT, data |-> <<156, 99>>],
      [type |-> IEND, data |-> << >>] }

\* The chunk lists of the input files: an opening, and behind a two-chunk
\* opening any chunks of TailPool, MaxChunks chunks at most in all
ChunkLists ==
    Openings
        \cup { h \o t : h \in ChunkPool \X ChunkPool,
                        t \in UNION { [1..n -> TailPool] : n \in 1..(MaxChunks - 2) } }

\* What inflate may resolve with: filtered streams of one or two rows, with
\* known and unknown filter types
InflatedPool ==
    { << >>, <<0, 128, 7>>, <<1, 5, 250>>, <<0, 1, 2, 0>>, <<4, 9, 3, 200>>, <<5, 1, 1>>,
      <<0, 1, 7, 0>> }

\* zlib cannot inflate an empty buffer ("unexpected end of file"): a zlib
\* stream has a 2-byte header and a 4-byte trailer
InflateCanResolve(data) == Len(data) > 0

----------------------------------------------------------------------------
(* parse(readData) *)

\* The input is a chunk list behind the signature, whole or cut short, or
\* at most one chunk behind a wrong signature
Init ==
    /\ chunks \in ChunkLists
    /\ \/ sig = Signature /\ cut \in CutPool
       \/ sig \in BadSignatures /\ cut = 0 /\ Len(chunks) <= 1
    /\ bytes = FileBytes(sig, chunks, [k \in 1..Len(chunks) |-> FileCrc], cut)
    /\ readData \in BOOLEAN
    /\ i = 0
    /\ header = << >>
    /\ png = NewPNG
    /\ dataChunks = << >>
    /\ pc = "start"
    /\ err = "none"
    /\ dispatched = << >>
    /\ inflateIn = << >>
    /\ inflated = << >>
    /\ call = [op |-> "parse", arg |-> readData]
    /\ ret = NoReturn

\* this.decodeHeader()
DecodeHeader ==
    /\ pc = "start"
    /\ LET r == decodeHeader(bytes, i) IN
        /\ i' = r.i
        /\ header' = r.header
        /\ err' = r.err
        /\ pc' = IF r.err = "none" THEN "loop" ELSE "failed"
    /\ UNCHANGED <<ret, call, sig, chunks, cut, bytes, readData, png, dataChunks, dispatched,
                   inflateIn, inflated>>

\* One iteration of the while loop: decodeChunk() and the break test
DecodeChunk ==
    /\ pc = "loop"
    /\ i < Len(bytes)
    /\ LET r == decodeChunk(bytes, ReaderState(i, png, dataChunks)) IN
        /\ i' = r.i
        /\ png' = r.png
        /\ dataChunks' = r.dataChunks
        /\ err' = r.err
        /\ dispatched' =
              IF r.dispatched
              THEN Append(dispatched,
                          [type |-> r.type, chunk |-> r.chunk, end |-> r.i, err |-> r.err])
              ELSE dispatched
        /\ pc' = IF r.err # "none" THEN "failed"
                 ELSE IF LoopBreaks(r.type, readData) THEN "pixels"
                 ELSE "loop"
    /\ UNCHANGED <<ret, call, sig, chunks, cut, bytes, readData, header, inflateIn, inflated>>

\* The while condition is false: no bytes remain
LoopExit ==
    /\ pc = "loop"
    /\ ~(i < Len(bytes))
    /\ pc' = "pixels"
    /\ UNCHANGED <<ret, call, sig, chunks, cut, bytes, readData, i, header, png, dataChunks, err,
                   dispatched, inflateIn, inflated>>

\* await this.decodePixels(), up to the call of inflate
DecodePixels ==
    /\ pc = "pixels"
    /\ inflateIn' = Append(inflateIn, Concat(dataChunks))
    /\ pc' = "inflating"
    /\ UNCHANGED <<ret, call, sig, chunks, cut, bytes, readData, i, header, png, dataChunks, err,
                   dispatched, inflated>>

\* inflate resolves; decodePixels defilters and parse returns this.png
InflateResolve ==
    /\ pc = "inflating"
    /\ InflateCanResolve(inflateIn[Len(inflateIn)])
    /\ \E data \in InflatedPool :
          LET r == DefilterInflated(png, data) IN
          /\ inflated' = data
          /\ png' = r.png
          /\ err' = r.err
          /\ pc' = IF r.err = "none" THEN "done" ELSE "failed"
    /\ UNCHANGED <<ret, call, sig, chunks, cut, bytes, readData, i, header, dataChunks, dispatched,
                   inflateIn>>

\* inflate rejects; the rejection propagates out of parse
InflateReject ==
    /\ pc = "inflating"
    /\ err' = "inflate error"
    /\ pc' = "failed"
    /\ UNCHANGED <<ret, call, sig, chunks, cut, bytes, readData, i, header, png, dataChunks,
                   dispatched, inflateIn, inflated>>

\* A direct call of png.setColorType(colorType) on a PNG object
SetColorTypeCall ==
    /\ pc = "call"
    /\ call.op = "setColorType"
    /\ LET r == setColorType(png, call.arg) IN
        /\ png' = r.png
        /\ err' = r.err
        /\ pc' = IF r.err = "none" THEN "returned" ELSE "threw"
    /\ UNCHANGED <<ret, call, sig, chunks, cut, bytes, readData, i, header, dataChunks,
                   dispatched, inflateIn, inflated>>

\* The caller holds a PNG object, returned by parse or built with the
\* setters, and has called no getter on it.  No getter changes the object,
\* so the first call shows every result a later one could.
HoldsObject == pc \in {"done", "object"} /\ call.op \in {"parse", "new"}

\* png.getPixel(x, y) on that object
GetPixelCall ==
    /\ HoldsObject
    /\ \E x \in 0..MaxCoord, y \in 0..MaxCoord :
          /\ call' = [op |-> "getPixel", arg |-> <<x, y>>]
          /\ ret' = getPixel(png, x, y)
    /\ UNCHANGED <<sig, chunks, cut, bytes, readData, i, header, png, dataChunks, pc, err,
                   dispatched, inflateIn, inflated>>

\* png.getRGBA8Array() on such an object
GetRGBA8ArrayCall ==
    /\ HoldsObject
    /\ call' = [op |-> "getRGBA8Array", arg |-> << >>]
    /\ ret' = getRGBA8Array(png)
    /\ UNCHANGED <<sig, chunks, cut, bytes, readData, i, header, png, dataChunks, pc, err,
                   dispatched, inflateIn, inflated>>

Next ==
    \/ DecodeHeader
    \/ DecodeChunk
    \/ LoopExit
    \/ DecodePixels
    \/ InflateResolve
    \/ InflateReject
    \/ GetPixelCall
    \/ GetRGBA8ArrayCall

Spec == Init /\ [][Next]_vars

\* The PNG objects setColorType is called on: a new one, and two whose
\* header fields an IHDR chunk has set
CalledPNGs ==
    { NewPNG,
      [NewPNG EXCEPT !.width = 2, !.height = 1, !.bitDepth = 8,
                     !.colorType = 6, !.colors = 4, !.alpha = TRUE],
      [NewPNG EXCEPT !.width = 1, !.height = 2, !.bitDepth = 1,
                     !.colorType = 3, !.colors = 1, !.alpha = FALSE,
                     !.palette = <<10, 20, 30>>] }

\* setColorType called with every byte value on each of these objects
InitSetColorType ==
    /\ call \in [op : {"setColorType"}, arg : Byte]
    /\ png \in CalledPNGs
    /\ pc = "call"
    /\ err = "none"
    /\ sig = Signature
    /\ chunks = << >>
    /\ cut = 0
    /\ bytes = sig
    /\ readData = TRUE
    /\ i = 0
    /\ header = << >>
    /\ dataChunks = << >>
    /\ dispatched = << >>
    /\ inflateIn = << >>
    /\ inflated = << >>
    /\ ret = NoReturn

SpecSetColorType == InitSetColorType /\ [][SetColorTypeCall]_vars

----------------------------------------------------------------------------
(* The defilterer on the streams a PNG encoder writes *)

\* PaethPredictor(a, b, c) of the PNG specification, as the comment above
\* unFilterPaeth quotes it
PaethPredictor(a, b, c) ==
    LET pp == a + b - c
        pa == Abs(pp - a)
        pb == Abs(pp - b)
        pc2 == Abs(pp - c)
    IN  IF pa <= pb /\ pa <= pc2 THEN a ELSE IF pb <= pc2 THEN b ELSE c

\* The byte k of row r of a raster of cpr bytes a row; 0 above row 0 and
\* left of column 0
RasterAt(raster, cpr, r, k) ==
    IF r < 0 \/ k < 0 THEN 0 ELSE raster[r * cpr + k + 1]

\* The encoder's filter of type t on raw byte x with left a, up b and
\* upper-left c
FilterByte(t, x, a, b, c) ==
    LET pred == CASE t = 0 -> 0
                  [] t = 1 -> a
                  [] t = 2 -> b
                  [] t = 3 -> (a + b) \div 2
                  [] t = 4 -> PaethPredictor(a, b, c)
    IN  (x + 256 - pred) % 256

\* The filtered stream of a raw raster: each row its filter type, then its
\* filtered bytes
FilterRows(raw, cpr, bpp, height, types) ==
    [n \in 1..(height * (cpr + 1)) |->
        LET r == (n - 1) \div (cpr + 1)
            k == ((n - 1) % (cpr + 1)) - 1
        IN  IF k < 0 THEN types[r + 1]
            ELSE FilterByte(types[r + 1], RasterAt(raw, cpr, r, k),
                            RasterAt(raw, cpr, r, k - bpp), RasterAt(raw, cpr, r - 1, k),
                            RasterAt(raw, cpr, r - 1, k - bpp))]

\* The headers of the images: 8-bit grayscale (1 byte a pixel) and 8-bit
\* grayscale with alpha (2 bytes a pixel)
DefilterHeaders ==
    { setColorType([NewPNG EXCEPT !.width = w, !.height = h, !.bitDepth = 8], ct).png :
        w \in 1..MaxWidth, h \in 1..MaxHeight, ct \in {0, 4} }

\* The raw rasters: byte k of row r is base + dr * r + dk * k modulo 256
RasterBases == {5, 250}

RasterSteps == {0, 1, 90, 255}

RawRaster(cpr, height, base, dr, dk) ==
    [n \in 1..(cpr * height) |->
        (base + dr * ((n - 1) \div cpr) + dk * ((n - 1) % cpr)) % 256]

\* interlaceNone is handed the stream an encoder made of a raw raster
InitDefilter ==
    /\ png \in DefilterHeaders
    /\ \E base \in RasterBases, dr \in RasterSteps, dk \in RasterSteps,
          types \in [1..png.height -> 0..4] :
          LET bpp == BytesPerPixel(png)
              cpr == bpp * png.width
              raw == RawRaster(cpr, png.height, base, dr, dk)
          IN  /\ call = [op |-> "interlaceNone", arg |-> [raw |-> raw, filters |-> types]]
              /\ inflated = FilterRows(raw, cpr, bpp, png.height, types)
    /\ pc = "defilter"
    /\ err = "none"
    /\ ret = NoReturn
    /\ sig = Signature
    /\ chunks = << >>
    /\ cut = 0
    /\ bytes = sig
    /\ readData = TRUE
    /\ i = 0
    /\ header = << >>
    /\ dataChunks = << >>
    /\ dispatched = << >>
    /\ inflateIn = << >>

\* reader.interlaceNone(inflated)
Defilter ==
    /\ pc = "defilter"
    /\ LET r == interlaceNone(png, inflated) IN
        /\ png' = r.png
        /\ err' = r.err
        /\ pc' = IF r.err = "none" THEN "defiltered" ELSE "failed"
    /\ UNCHANGED <<ret, call, sig, chunks, cut, bytes, readData, i, header, dataChunks,
                   dispatched, inflateIn, inflated>>

SpecDefilter == InitDefilter /\ [][Defilter]_vars

----------------------------------------------------------------------------
(* The getters on PNG objects the caller built with the setters *)

\* new PNG() and the setters called in the order decodeIHDR, decodePLTE,
\* decodeTRNS and interlaceNone call them; pixels = << >> leaves the raster
\* as the constructor made it
BuildPNG(w, h, bd, ct, palette, trns, pixels) ==
    LET p1 == setBitDepth(setHeight(setWidth(NewPNG, w).png, h).png, bd).png
        p2 == setColorType(p1, ct).png
        p3 == setTRNS(setPalette(p2, palette).png, trns).png
    IN  IF pixels = << >> THEN p3 ELSE setPixels(p3, pixels).png

\* Bit depth and colour type of the objects: 8-bit of every colour type,
\* 1-bit grayscale and indexed, 16-bit grayscale
ObjectFormats == { <<8, 0>>, <<8, 2>>, <<8, 3>>, <<8, 4>>, <<8, 6>>, <<1, 0>>, <<1, 3>>, <<16, 0>> }

\* A raster of n bytes: palette indices 0, 1, 2 for an indexed image, else
\* samples that differ from byte to byte
ObjectRaster(n, ct) ==
    [k \in 1..n |-> IF ct = 3 THEN (k - 1) % 3 ELSE (k * 37) % 256]

\* A new object; objects with the header set and the raster unpopulated or
\* populated (indexed ones with a palette of two colours and one alpha
\* entry); and two one-pixel images, 8-bit gray and 1-bit indexed
PixelObjects ==
    { NewPNG,
      BuildPNG(1, 1, 8, 0, << >>, << >>, <<128>>),
      BuildPNG(1, 1, 1, 3, <<10, 20, 30>>, <<0>>, <<0>>) }
    \cup
    { LET p == BuildPNG(w, h, f[1], f[2],
                       IF f[2] = 3 THEN <<10, 20, 30, 40, 50, 60>> ELSE << >>,
                       IF f[2] = 3 THEN <<0>> ELSE << >>, << >>)
      IN  IF populated
          THEN setPixels(p, ObjectRaster(BytesPerPixel(p) * w * h, f[2])).png
          ELSE p :
        w \in 1..MaxWidth, h \in 1..MaxHeight, f \in ObjectFormats, populated \in BOOLEAN }

InitPixels ==
    /\ png \in PixelObjects
    /\ call = [op |-> "new", arg |-> << >>]
    /\ ret = NoReturn
    /\ pc = "object"
    /\ err = "none"
    /\ sig = Signature
    /\ chunks = << >>
    /\ cut = 0
    /\ bytes = sig
    /\ readData = TRUE
    /\ i = 0
    /\ header = << >>
    /\ dataChunks = << >>
    /\ dispatched = << >>
    /\ inflateIn = << >>
    /\ inflated = << >>

NextPixels == GetPixelCall \/ GetRGBA8ArrayCall

SpecPixels == InitPixels /\ [][NextPixels]_vars

----------------------------------------------------------------------------
(* A decode session on its own: parse from its call to its outcome *)

\* The chunks of the session files: a valid IHDR, pixel data, the end chunk
\* and a chunk of unknown type
SessionPool ==
    { [type |-> IHDR, data |-> IHDRData(1, 2, 8, 0, 0, 0, 0)],
      [type |-> IDAT, data |-> <<156, 99>>],
      [type |-> IEND, data |-> << >>],
      [type |-> tEXt, data |-> <<65>>] }

\* The chunk lists of the session files: any chunks of SessionPool in any
\* order, MaxChunks chunks at most
SessionLists == UNION { [1..n -> SessionPool] : n \in 0..MaxChunks }

InitSession ==
    /\ chunks \in SessionLists
    /\ \/ sig = Signature /\ cut \in CutPool
       \/ sig \in BadSignatures /\ cut = 0 /\ Len(chunks) <= 1
    /\ bytes = FileBytes(sig, chunks, [k \in 1..Len(chunks) |-> FileCrc], cut)
    /\ readData \in BOOLEAN
    /\ i = 0
    /\ header = << >>
    /\ png = NewPNG
    /\ dataChunks = << >>
    /\ pc = "start"
    /\ err = "none"
    /\ dispatched = << >>
    /\ inflateIn = << >>
    /\ inflated = << >>
    /\ call = [op |-> "parse", arg |-> readData]
    /\ ret = NoReturn

\* The steps parse takes by itself outside the body of its chunk loop: it is
\* one async function, run without preemption up to its await
ParseStep == DecodeHeader \/ LoopExit \/ DecodePixels

\* An iteration of the chunk loop, told by where parse stands: with parse in
\* the loop and input left, decodeChunk runs, after which parse is still in
\* the loop, past it or failed, with the cursor at or behind where it was
ChunkLoopBody ==
    /\ pc = "loop"
    /\ i < Len(bytes)
    /\ pc' \in {"loop", "pixels", "failed"}
    /\ i' \in i..Len(bytes)

\* The promise of the external decompressor settles
InflateSettles == InflateResolve \/ InflateReject

NextSession == ParseStep \/ DecodeChunk \/ InflateSettles

\* parse keeps running while it can, and the decompressor is assumed to
\* resolve or reject eventually
SpecSession ==
    /\ InitSession
    /\ [][NextSession]_vars
    /\ WF_vars(ParseStep)
    /\ WF_<<pc, i>>(ChunkLoopBody)
    /\ WF_vars(InflateSettles)

----------------------------------------------------------------------------
(* The input file as the claims see it *)

\* The offset just behind the CRC of the k-th chunk of the file
RECURSIVE ChunkEnd(_)
ChunkEnd(k) == IF k = 0 THEN 8 ELSE ChunkEnd(k - 1) + 12 + Len(chunks[k].data)

\* An IHDR payload every setter accepts
ValidIHDRData(d) ==
    /\ Len(d) = 13
    /\ d[10] \in {0, 2, 3, 4, 6}
    /\ d[11] = 0
    /\ d[12] = 0
    /\ d[13] \in {0, 1}

\* The file starts with the signature and a whole, valid IHDR chunk
StartsWithValidIHDR ==
    /\ sig = Signature
    /\ Len(chunks) >= 1
    /\ chunks[1].type = IHDR
    /\ ValidIHDRData(chunks[1].data)
    /\ ChunkEnd(1) <= Len(bytes)

Last(s) == s[Len(s)]

----------------------------------------------------------------------------
(* C1: header-only parsing.  On a file that starts with the signature and a
   valid IHDR chunk, parse(false) does not fail and returns the header read
   from that IHDR; and parse(false) never hands anything to inflate. *)
C1_HeaderOnlyParse ==
    (~readData /\ StartsWithValidIHDR) =>
        /\ inflateIn = << >>
        /\ pc # "failed"
        /\ pc = "done" =>
              /\ png.width = readUInt32(chunks[1].data, 0)
              /\ png.height = readUInt32(chunks[1].data, 4)
              /\ png.bitDepth = chunks[1].data[9]
              /\ png.colorType = chunks[1].data[10]

----------------------------------------------------------------------------
(* C2: the chunk loop stops.  Chunks are dispatched in file order; nothing
   is dispatched after an IEND chunk, nor after the first IHDR chunk under
   parse(false), where the cursor then rests at the end of that chunk's CRC;
   and the loop is left without a stop only when no bytes remain. *)
C2_ChunkLoopStops ==
    /\ Len(dispatched) <= Len(chunks)
    /\ \A k \in 1..Len(dispatched) :
          /\ dispatched[k].type = chunks[k].type
          /\ dispatched[k].chunk = chunks[k].data
          /\ dispatched[k].end = ChunkEnd(k)
          /\ k < Len(dispatched) =>
                /\ chunks[k].type # IEND
                /\ ~readData => chunks[k].type # IHDR
    /\ ( /\ ~readData
         /\ dispatched # << >>
         /\ Last(dispatched).type = IHDR
         /\ Last(dispatched).err = "none" )
       => pc # "loop" /\ i = ChunkEnd(Len(dispatched))
    /\ pc = "pixels" =>
          \/ i = Len(bytes)
          \/ /\ dispatched # << >>
             /\ \/ Last(dispatched).type = IEND
                \/ ~readData /\ Last(dispatched).type = IHDR

\* parse(false) has stopped behind the first IHDR with chunks left unread
C2_Witness ==
    /\ ~readData
    /\ pc = "pixels"
    /\ Len(chunks) = 3
    /\ chunks[1].type = IHDR
    /\ chunks[2].type = IDAT
    /\ chunks[3].type = IEND
    /\ Len(dispatched) = 1
    /\ i < Len(bytes)

----------------------------------------------------------------------------
(* C3: the signature check.  If the first 8 bytes of the input are not the
   PNG signature, parse fails with the bad-signature error with the cursor
   behind those 8 bytes: no chunk was dispatched, and the PNG object, the
   IDAT list and the decompressor are untouched. *)
C3_BadSignature ==
    (Len(bytes) >= 8 /\ SubSeq(bytes, 1, 8) # Signature /\ pc # "start") =>
        /\ pc = "failed"
        /\ err = "invalid PNGReader file (bad signature)"
        /\ i = 8
        /\ header = << >>
        /\ dispatched = << >>
        /\ png = NewPNG
        /\ dataChunks = << >>
        /\ inflateIn = << >>

\* parse failed on a file with a wrong last signature byte and a chunk
C3_Witness ==
    /\ pc = "failed"
    /\ Len(bytes) > 8
    /\ bytes[8] # Signature[8]
    /\ err = "invalid PNGReader file (bad signature)"

----------------------------------------------------------------------------
(* C4: IDAT reassembly.  inflate is called at most once, and the buffer it
   is handed is the payloads of the IDAT chunks dispatched, joined in file
   order. *)
RECURSIVE IDATBytes(_)
IDATBytes(k) ==
    IF k = 0 THEN << >>
    ELSE IDATBytes(k - 1) \o (IF chunks[k].type = IDAT THEN chunks[k].data ELSE << >>)

C4_IDATReassembly ==
    /\ Len(inflateIn) <= 1
    /\ inflateIn # << >> => inflateIn[1] = IDATBytes(Len(dispatched))

\* Two IDAT chunks of different sizes with another chunk between them
C4_Witness ==
    /\ Len(dispatched) = 4
    /\ chunks[1].type = IDAT /\ chunks[1].data = <<120>>
    /\ chunks[2].type = tEXt
    /\ chunks[3].type = IDAT /\ chunks[3].data = <<156, 99>>
    /\ chunks[4].type = IEND
    /\ inflateIn = << <<120, 156, 99>> >>

----------------------------------------------------------------------------
(* C5: unknown chunks are skipped.  When the chunk at the cursor is whole
   and its type is none of IHDR, PLTE, IDAT, tRNS, IEND, decodeChunk throws
   nothing, moves the cursor by 12 + length, changes nothing else, and the
   loop goes on. *)
KnownTypes == {IHDR, PLTE, IDAT, tRNS, IEND}

UnknownChunkAtCursor ==
    /\ pc = "loop"
    /\ i + 8 <= Len(bytes)
    /\ SubSeq(bytes, i + 5, i + 8) \notin KnownTypes
    /\ i + 12 + readUInt32(bytes, i) <= Len(bytes)

C5_UnknownChunkSkipped ==
    [][ UnknownChunkAtCursor =>
          /\ i' = i + 12 + readUInt32(bytes, i)
          /\ err' = "none"
          /\ pc' = "loop"
          /\ png' = png
          /\ dataChunks' = dataChunks
          /\ header' = header
          /\ inflateIn' = inflateIn ]_vars

\* A tEXt chunk was dispatched behind an IHDR and an IDAT chunk, and the
\* loop is about to read the chunk behind it
C5_Witness ==
    /\ pc = "loop"
    /\ Len(dispatched) = 2
    /\ dispatched[1].type = IHDR
    /\ dispatched[2].type = tEXt
    /\ png.width = 2
    /\ i = ChunkEnd(2)
    /\ i < Len(bytes)

----------------------------------------------------------------------------
(* C6: the CRC is read but not validated.  Whatever the CRC field of any
   one chunk, or of all chunks, holds, the chunk stage of parse ends in the same state with the
   same error, and a successful parse returns the same PNG object; but a
   chunk whose CRC field is not wholly there fails with the end-of-file
   error, nothing dispatched. *)
CrcPool == { FileCrc, <<255, 255, 255, 255>> }

\* The input file with other contents in the CRC field of one chunk, or of
\* all chunks
OtherCrcFiles ==
    { FileBytes(sig, chunks,
                [k \in 1..Len(chunks) |-> IF k \in altered THEN crc ELSE FileCrc], cut) :
        altered \in { 1..Len(chunks) } \cup { {k} : k \in 1..Len(chunks) },
        crc \in CrcPool \ {FileCrc} }

ChunkStageOver == pc = "pixels" \/ (pc = "failed" /\ inflateIn = << >>)

SameOutcomeWhateverCrc ==
    /\ ChunkStageOver =>
          \A b \in OtherCrcFiles :
             ParseChunks(b, readData) =
                [i |-> i, png |-> png, dataChunks |-> dataChunks, err |-> err]
    /\ (pc = "done" /\ call.op = "parse") =>
          \A b \in OtherCrcFiles :
             LET o == ParseChunks(b, readData)
             IN  /\ o.err = "none"
                 /\ Concat(o.dataChunks) = inflateIn[1]
                 /\ DefilterInflated(o.png, inflated) = Done(png)

\* The chunk at the cursor has its length, type and payload in the file,
\* but fewer than 4 bytes behind them
CrcCutShort ==
    /\ pc = "loop"
    /\ i + 8 <= Len(bytes)
    /\ i + 8 + readUInt32(bytes, i) <= Len(bytes)
    /\ i + 12 + readUInt32(bytes, i) > Len(bytes)

C6_CrcNotValidated ==
    /\ []SameOutcomeWhateverCrc
    /\ [][ CrcCutShort =>
              /\ pc' = "failed"
              /\ err' = "Unexpectedly reached end of file"
              /\ i' = i + 8 + readUInt32(bytes, i)
              /\ png' = png
              /\ dataChunks' = dataChunks
              /\ dispatched' = dispatched ]_vars

\* Two chunks were read with their CRC fields, the third has half of its own
C6_Witness ==
    /\ pc = "failed"
    /\ cut = 2
    /\ Len(chunks) = 3
    /\ Len(dispatched) = 2
    /\ i = ChunkEnd(3) - 4
    /\ err = "Unexpectedly reached end of file"

----------------------------------------------------------------------------
(* C7: the colour-type table.  setColorType(c) returns iff c is one of
   0, 2, 3, 4, 6 and then stores c with the channel count and alpha flag of
   the table; for every other byte it throws and the object is unchanged. *)
ColorTable ==
    [c \in {0, 2, 3, 4, 6} |->
        CASE c = 0 -> <<1, FALSE>>
          [] c = 2 -> <<3, FALSE>>
          [] c = 3 -> <<1, FALSE>>
          [] c = 4 -> <<2, TRUE>>
          [] c = 6 -> <<4, TRUE>>]

C7_ColorTypeTable ==
    [][ (pc = "call" /\ call.op = "setColorType") =>
          IF call.arg \in DOMAIN ColorTable
          THEN /\ pc' = "returned"
               /\ png'.colorType = call.arg
               /\ <<png'.colors, png'.alpha>> = ColorTable[call.arg]
               /\ png' = [png EXCEPT !.colorType = png'.colorType,
                                     !.colors = png'.colors, !.alpha = png'.alpha]
          ELSE /\ pc' = "threw"
               /\ err' = "invalid color type"
               /\ png' = png ]_vars

\* setColorType(4) has returned on an object that held colour type 3
C7_Witness ==
    /\ pc = "returned"
    /\ call = [op |-> "setColorType", arg |-> 4]
    /\ png.colorType = 4
    /\ png.colors = 2
    /\ png.alpha = TRUE
    /\ png.bitDepth = 1

----------------------------------------------------------------------------
(* C8: IHDR validation.  An IHDR chunk with an unknown colour type, a
   compression or filter method other than 0, or an interlace method other
   than 0 and 1 is the last chunk dispatched: parse has failed with the
   error of the first offending field, inflate was not called and no image
   is returned. *)
IHDRError(d) ==
    IF d[10] \notin {0, 2, 3, 4, 6} THEN "invalid color type"
    ELSE IF d[11] # 0 THEN "invalid compression method"
    ELSE IF d[12] # 0 THEN "invalid filter method"
    ELSE IF d[13] \notin {0, 1} THEN "invalid interlace method"
    ELSE "none"

C8_InvalidIHDRAborts ==
    \A k \in 1..Len(dispatched) :
        ( /\ chunks[k].type = IHDR
          /\ Len(chunks[k].data) = 13
          /\ IHDRError(chunks[k].data) # "none" )
        => /\ k = Len(dispatched)
           /\ pc = "failed"
           /\ err = IHDRError(chunks[k].data)
           /\ inflateIn = << >>
           /\ png.pixels = << >>

\* Behind an accepted IHDR chunk, an IHDR chunk with interlace method 2
\* has failed the parse with chunks left in the file
C8_Witness ==
    /\ pc = "failed"
    /\ err = "invalid interlace method"
    /\ Len(dispatched) = 2
    /\ chunks[1].type = IHDR
    /\ dispatched[1].err = "none"
    /\ chunks[2].type = IHDR
    /\ Len(chunks) = 4
    /\ i = ChunkEnd(2)

----------------------------------------------------------------------------
(* C9: palette validation.  A PLTE payload is rejected, the parse failing
   with the palette it held, if its length is no multiple of 3 or exceeds
   2^bitDepth x 3 for the bit depth of the header; otherwise it is stored
   verbatim.  So the palette of an image that parse returns has a length
   that is a multiple of 3 and at most 2^bitDepth x 3 for its bit depth. *)

\* The bit depth in force when the k-th chunk is dispatched
RECURSIVE BitDepthBefore(_)
BitDepthBefore(k) ==
    IF k <= 1 THEN 0
    ELSE IF chunks[k - 1].type = IHDR /\ Len(chunks[k - 1].data) = 13
         THEN chunks[k - 1].data[9]
         ELSE BitDepthBefore(k - 1)

\* The palette stored once the first k chunks are dispatched
RECURSIVE PaletteAfter(_)
PaletteAfter(k) ==
    IF k = 0 THEN << >>
    ELSE IF chunks[k].type = PLTE /\ dispatched[k].err = "none"
         THEN chunks[k].data
         ELSE PaletteAfter(k - 1)

PaletteFits(n, bitDepth) == n % 3 = 0 /\ n <= (2 ^ bitDepth) * 3

C9_PaletteValidation ==
    /\ \A k \in 1..Len(dispatched) :
          chunks[k].type = PLTE =>
             IF PaletteFits(Len(chunks[k].data), BitDepthBefore(k))
             THEN dispatched[k].err = "none"
             ELSE /\ dispatched[k].err # "none"
                  /\ k = Len(dispatched)
                  /\ pc = "failed"
    /\ png.palette = PaletteAfter(Len(dispatched))
    /\ pc = "done" => PaletteFits(Len(png.palette), png.bitDepth)

----------------------------------------------------------------------------
(* C10: the raster header is fixed by the first IHDR.  Once an IHDR chunk
   has been dispatched without error, no step of the parse changes width,
   height, bitDepth, colorType, channel count, alpha flag or interlace
   method. *)
RasterHeader(p) ==
    <<p.width, p.height, p.bitDepth, p.colorType, p.colors, p.alpha, p.interlaceMethod>>

IHDRAccepted ==
    \E k \in 1..Len(dispatched) :
        dispatched[k].type = IHDR /\ dispatched[k].err = "none"

C10_HeaderFixedByFirstIHDR ==
    [][ IHDRAccepted => RasterHeader(png') = RasterHeader(png) ]_vars

----------------------------------------------------------------------------
(* C11: defiltering inverts filtering.  For every filter type, with 1 and 2
   bytes a pixel, the defilterer run on the stream an encoder made of a raw
   raster stores exactly that raster, every byte of it in 0..255, and does
   not fail. *)
C11_DefilterInvertsFilter ==
    /\ pc # "failed"
    /\ pc = "defiltered" =>
          /\ png.pixels = call.arg.raw
          /\ \A n \in 1..Len(png.pixels) : png.pixels[n] \in Byte

\* A 2 x 2 image of 2 bytes a pixel, first row Average, second row Paeth,
\* whose raster wraps around 255, was defiltered
C11_Witness ==
    /\ pc = "defiltered"
    /\ png.width = 2 /\ png.height = 2 /\ png.colors = 2
    /\ call.arg.filters = <<3, 4>>
    /\ png.pixels = <<250, 84, 174, 8, 249, 83, 173, 7>>

----------------------------------------------------------------------------
(* C12: the Paeth predictor.  Every byte of a defiltered Paeth row is the
   filtered byte plus PaethPredictor(left, up, upper-left) modulo 256, the
   neighbours outside the image being 0; the predictor is a when the three
   distances are equal, and it is left when up and upper-left are 0 and up
   when left and upper-left are 0, for every byte value. *)
C12_PaethPredictor ==
    /\ \A v \in Byte :
          /\ PaethPredictor(v, v, v) = v
          /\ PaethPredictor(v, 0, 0) = v
          /\ PaethPredictor(0, v, 0) = v
    /\ pc = "defiltered" =>
          LET bpp == BytesPerPixel(png)
              cpr == bpp * png.width
          IN  \A r \in 0..(png.height - 1), k \in 0..(cpr - 1) :
                call.arg.filters[r + 1] = 4 =>
                   RasterAt(png.pixels, cpr, r, k) =
                      ( inflated[r * (cpr + 1) + k + 2]
                          + PaethPredictor(RasterAt(png.pixels, cpr, r, k - bpp),
                                           RasterAt(png.pixels, cpr, r - 1, k),
                                           RasterAt(png.pixels, cpr, r - 1, k - bpp)) ) % 256

\* A Paeth row below another row was defiltered where the predictor of its
\* second pixel is the upper-left byte 5, not left (4) and not up (6)
C12_Witness ==
    /\ pc = "defiltered"
    /\ png.width = 2 /\ png.height = 2 /\ png.colors = 1
    /\ call.arg.filters[2] = 4
    /\ png.pixels = <<5, 6, 4, 5>>
    /\ inflated[6] = 0

----------------------------------------------------------------------------
(* The pixel stage as the claims see it *)

\* inflate was called and resolved: parse ended in the defilterer
InflateResolved ==
    /\ inflateIn # << >>
    /\ pc \in {"done", "failed"}
    /\ err # "inflate error"

\* The rows of the stream start every cpr + 1 bytes; one of them starts
\* with a byte that is no filter type
HasUnknownFilterRow(p, data) ==
    LET cpr == BytesPerPixel(p) * p.width
    IN  \E r \in 0..Len(data) :
           /\ r * (cpr + 1) < Len(data)
           /\ data[r * (cpr + 1) + 1] \notin 0..4

----------------------------------------------------------------------------
(* C13: invalid filter type.  If a row of the stream inflate resolved with
   starts with a byte outside 0..4, parse has failed (with the unknown
   filter error when the image is not interlaced), the raster was never
   assigned and no image is returned, rows before it defiltered or not. *)
C13_InvalidFilterType ==
    (InflateResolved /\ HasUnknownFilterRow(png, inflated)) =>
        /\ pc = "failed"
        /\ png.pixels = << >>
        /\ png.interlaceMethod = 0 => err = "unknown filtered scanline"

\* On a 1 x 2 image the first row (type 0) was defiltered and the second
\* row has filter type 7
C13_Witness ==
    /\ pc = "failed"
    /\ err = "unknown filtered scanline"
    /\ inflated = <<0, 1, 7, 0>>
    /\ png.width = 1 /\ png.height = 2
    /\ BytesPerPixel(png) = 1

----------------------------------------------------------------------------
(* C14: Adam7 is rejected.  As amended: whenever inflate has resolved and
   the header's interlaceMethod is 1, parse has failed with the Adam7 error
   and the raster was never assigned. *)
C14_Adam7Rejected ==
    (InflateResolved /\ png.interlaceMethod = 1) =>
        /\ pc = "failed"
        /\ err = "Adam7 interlacing is not implemented yet"
        /\ png.pixels = << >>

\* A file whose only IHDR is valid with interlace method 1: inflate
\* resolved with a one-row stream and parse failed with the Adam7 error
C14_Witness ==
    /\ pc = "failed"
    /\ err = "Adam7 interlacing is not implemented yet"
    /\ inflated = <<0, 128, 7>>
    /\ chunks[1] = [type |-> IHDR, data |-> IHDRData(1, 1, 8, 4, 0, 0, 1)]
    /\ \A k \in 2..Len(chunks) : chunks[k].type # IHDR

(* C14 as stated: whenever parse(true) of a whole file that carries IDAT
   bytes has entered the pixel stage with interlaceMethod 1 and has ended,
   it failed with the Adam7 error, no other error, and the raster was never
   assigned. *)
C14_Adam7OnlyError ==
    ( /\ readData /\ cut = 0
      /\ inflateIn # << >> /\ Concat(dataChunks) # << >>
      /\ pc \in {"done", "failed"}
      /\ png.interlaceMethod = 1 ) =>
        /\ pc = "failed"
        /\ err = "Adam7 interlacing is not implemented yet"
        /\ png.pixels = << >>

----------------------------------------------------------------------------
(* The getters as the claims see them *)

\* getPixel(x, y) was called with x < width and y < height
InBoundsGetPixel ==
    /\ call.op = "getPixel"
    /\ call.arg[1] < png.width
    /\ call.arg[2] < png.height

\* The byte offset of pixel (x, y): bytesPerPixel x (y x width + x)
PixelOffset(p, x, y) == BytesPerPixel(p) * (y * p.width + x)

\* The raster byte k bytes behind the offset of pixel (x, y)
Sample(p, x, y, k) == Elem(p.pixels, PixelOffset(p, x, y) + k)

\* The tuple of pixel (x, y) by colour type
PixelTuple(p, x, y) ==
    LET s0 == Sample(p, x, y, 0)
        s1 == Sample(p, x, y, 1)
        s2 == Sample(p, x, y, 2)
        s3 == Sample(p, x, y, 3)
    IN  CASE p.colorType = 0 -> <<s0, s0, s0, 255>>
          [] p.colorType = 2 -> <<s0, s1, s2, 255>>
          [] p.colorType = 4 -> <<s0, s0, s0, s1>>
          [] p.colorType = 6 -> <<s0, s1, s2, s3>>
          [] p.colorType = 3 ->
                <<Elem(p.palette, 3 * s0), Elem(p.palette, 3 * s0 + 1),
                  Elem(p.palette, 3 * s0 + 2),
                  IF s0 < Len(p.trns) THEN p.trns[s0 + 1] ELSE 255>>

\* The raster holds the bytesPerPixel x width x height bytes of the image
Populated(p) ==
    /\ p.pixels # << >>
    /\ Len(p.pixels) = BytesPerPixel(p) * p.width * p.height

\* parse(true) returned the image of a well-formed file: whole, one valid
\* IHDR at its start, a palette if the image is indexed, and a stream of
\* height rows of 1 + bytesPerPixel x width bytes
ParsedWellFormed ==
    /\ pc = "done"
    /\ readData
    /\ cut = 0
    /\ StartsWithValidIHDR
    /\ \A k \in 2..Len(chunks) : chunks[k].type # IHDR
    /\ png.colorType = 3 => png.palette # << >>
    /\ Len(inflated) = png.height * (BytesPerPixel(png) * png.width + 1)

----------------------------------------------------------------------------
(* C15: pixel addressing.  For every in-bounds (x, y) on the image parse
   returned for a well-formed file, getPixel reads the raster from byte offset bytesPerPixel x
   (y x width + x), bytesPerPixel being the stride max(1, colors x
   bitDepth / 8) the defilterer wrote the raster with, at every bit depth. *)
C15_PixelAddressing ==
    (ParsedWellFormed /\ InBoundsGetPixel) =>
        /\ PixelIndex8(png, call.arg[1], call.arg[2])
              = 8 * PixelOffset(png, call.arg[1], call.arg[2])
        /\ png.colorType # 3 =>
              ret.value[1] = Sample(png, call.arg[1], call.arg[2], 0)

----------------------------------------------------------------------------
(* C16: the pixel tuple per colour type.  On a populated image, getPixel
   of an in-bounds (x, y) returns the tuple of the colour type made of the
   bytes s0..s3 at the pixel's offset; for colour type 3 the palette entry
   of index s0 with alpha transparencyTable[s0] if there is one, else 255. *)
C16_PixelTuple ==
    (InBoundsGetPixel /\ Populated(png)) =>
        ret = Returned(PixelTuple(png, call.arg[1], call.arg[2]))

----------------------------------------------------------------------------
(* C17: the bounds check.  getPixel(x, y) with x >= width or y >= height
   throws the out-of-bounds error, returns no tuple and leaves the object
   as it was. *)
C17_BoundsCheck ==
    [][ ( /\ call'.op = "getPixel"
          /\ call # call'
          /\ (call'.arg[1] >= png.width \/ call'.arg[2] >= png.height) )
        => /\ ret' = Thrown("x,y position out of bound")
           /\ png' = png ]_vars

\* getPixel(1, 0) was called on a populated image one pixel wide and threw
C17_Witness ==
    /\ call = [op |-> "getPixel", arg |-> <<1, 0>>]
    /\ png.width = 1 /\ png.height = 2
    /\ Populated(png)
    /\ ret.err = "x,y position out of bound"
    /\ ret.value = << >>

----------------------------------------------------------------------------
(* C18: getPixel on an unpopulated raster.  When the raster was never
   populated, getPixel(x, y) with x < width and y < height throws the
   empty-pixel-data error and returns no tuple. *)
C18_EmptyPixelData ==
    (InBoundsGetPixel /\ png.pixels = << >>) => ret = Thrown("pixel data is empty")

----------------------------------------------------------------------------
(* C19: bulk RGBA extraction.  getRGBA8Array throws exactly when getPixel
   throws for some in-bounds (x, y); otherwise it returns 4 x width x height
   entries, the entry at (y x width + x) x 4 + k being component k of
   getPixel(x, y). *)
C19_RGBA8Array ==
    call.op = "getRGBA8Array" =>
        IF \E x \in 0..(png.width - 1), y \in 0..(png.height - 1) :
              getPixel(png, x, y).err # "none"
        THEN ret.err # "none" /\ ret.value = << >>
        ELSE /\ ret.err = "none"
             /\ Len(ret.value) = 4 * png.width * png.height
             /\ \A x \in 0..(png.width - 1), y \in 0..(png.height - 1), k \in 0..3 :
                   ret.value[(y * png.width + x) * 4 + k + 1]
                      = getPixel(png, x, y).value[k + 1]

\* The array of a populated 2 x 2 image with 8-bit gray and alpha
C19_Witness ==
    /\ call.op = "getRGBA8Array"
    /\ png.width = 2 /\ png.height = 2 /\ png.colorType = 4 /\ png.bitDepth = 8
    /\ Populated(png)
    /\ ret.err = "none"
    /\ ret.value = <<37, 37, 37, 74, 111, 111, 111, 148,
                     185, 185, 185, 222, 3, 3, 3, 40>>

----------------------------------------------------------------------------
(* C20: after a successful parse(true) every pixel is readable.  getPixel
   of an in-bounds (x, y) on the image returned for a well-formed file
   returns, without error, a tuple of four byte values in 0..255. *)
C20_EveryPixelReadable ==
    (ParsedWellFormed /\ InBoundsGetPixel) =>
        /\ ret.err = "none"
        /\ Len(ret.value) = 4
        /\ \A k \in 1..4 : ret.value[k] \in Byte

----------------------------------------------------------------------------
\* The bytes per row of the filtered stream after the filter-type byte
RowBytes(p) == BytesPerPixel(p) * p.width

\* A parse(true) of a whole file whose only IHDR is its first chunk, which
\* declares no interlacing, and whose pixel data was inflated to a stream
\* that is not empty and defiltered
NonInterlacedDecoded ==
    /\ pc = "done"
    /\ readData
    /\ cut = 0
    /\ StartsWithValidIHDR
    /\ \A k \in 2..Len(chunks) : chunks[k].type # IHDR
    /\ png.interlaceMethod = 0
    /\ png.colorType = 3 => png.palette # << >>
    /\ inflateIn # << >>
    /\ inflated # << >>

(* C21: row accounting in the defilterer.  When a non-interlaced image has
   been decoded successfully, the decompressed stream held exactly height
   rows of 1 + cpr bytes, and the raster has bytesPerPixel x width x height
   bytes; a stream with more or fewer bytes never yields a decoded image. *)
C21_RowAccounting ==
    NonInterlacedDecoded =>
        /\ Len(inflated) = png.height * (RowBytes(png) + 1)
        /\ Len(png.pixels) = BytesPerPixel(png) * png.width * png.height

----------------------------------------------------------------------------
\* The chunk length declared by the four bytes at the cursor
DeclaredLength == readUInt32(SubSeq(bytes, i + 1, i + 4), 0)

\* The cursor is at a chunk whose length and type fields are present but
\* whose declared length exceeds the input left after them
ChunkOverrunsInput ==
    /\ pc = "loop"
    /\ i + 8 <= Len(bytes)
    /\ DeclaredLength > Len(bytes) - (i + 8)

\* The read lengths tried at the cursor: none, a field, two fields, all that
\* is left, and one more than is left
ReadLengths == {0, 4, 8, Len(bytes) - i, Len(bytes) - i + 1}

\* readBytes(n) at the cursor returns the n bytes there and a cursor n
\* further on, or fails and leaves the cursor where it was
ReadBytesAtCursor ==
    \A n \in ReadLengths :
        LET r == readBytes(bytes, i, n) IN
        IF n <= Len(bytes) - i
        THEN /\ r.ok
             /\ r.bytes = [k \in 1..n |-> bytes[i + k]]
             /\ r.i = i + n
        ELSE /\ ~r.ok
             /\ r.i = i

(* C22: the cursor invariant.  In every state of a parse the read offset lies
   in 0..input length and no step decreases it; readBytes(n) with n bytes left
   returns exactly those bytes and advances the offset by n, and with fewer
   left it fails leaving the offset unchanged; a chunk whose declared length
   exceeds the remaining input aborts the parse with the unexpected-end-of-file
   error. *)
C22_CursorInvariant ==
    /\ [](0 <= i /\ i <= Len(bytes) /\ ReadBytesAtCursor)
    /\ [][/\ i' >= i
          /\ ChunkOverrunsInput =>
                /\ pc' = "failed"
                /\ err' = "Unexpectedly reached end of file"
                /\ i' = i + 8]_vars

\* A file cut inside the payload of its second chunk, an IHDR: the parse has
\* failed with the cursor left after that chunk's length and type fields
C22_Witness ==
    /\ Len(chunks) = 2
    /\ chunks[2].type = IHDR
    /\ cut = 10
    /\ pc = "failed"
    /\ err = "Unexpectedly reached end of file"
    /\ i = ChunkEnd(1) + 8
    /\ i + 13 > Len(bytes)

----------------------------------------------------------------------------
\* parse has settled: it returned the image or threw
Settled == pc \in {"done", "failed"}

(* C23: every decode session terminates.  Under SpecSession, for either value
   of the pixel-data flag, parse eventually settles, returning the image or
   throwing one error, and stays settled with that outcome; each iteration of
   the chunk loop either fails or advances the cursor by at least 12 bytes,
   and the row loop's stride cpr + 1 is at least 1. *)
C23_ParseTerminates ==
    /\ <>Settled
    /\ [](/\ pc = "done" => err = "none"
          /\ pc = "failed" => err # "none"
          /\ RowBytes(png) + 1 >= 1)
    /\ [][/\ Settled => (pc' = pc /\ err' = err /\ png' = png)
          /\ (pc = "loop" /\ i < Len(bytes)) =>
                (pc' = "failed" \/ i' >= i + 12)]_vars

\* parse(true) has returned the image after the chunk loop went through a
\* file of at least three chunks and the row loop through two rows
C23_Witness ==
    /\ pc = "done"
    /\ call.op = "parse"
    /\ readData
    /\ Len(chunks) >= 3
    /\ Len(dispatched) = Len(chunks)
    /\ png.height = 2
    /\ Len(inflated) = 2 * (RowBytes(png) + 1)

====
